---- MODULE Spec2Model ----
(***************************************************************************)
(* A model of crypto_price_tracker.py: the scraping run of main(), the     *)
(* read-modify-write of save_to_csv() and the reduction of analyze_data(). *)
(*                                                                         *)
(* Text is a sequence of one-character strings, so that str.split,         *)
(* str.startswith, str.replace and float() are computed on characters.     *)
(* The functions of the file can be entered three ways (variable entry):   *)
(* through main(), through direct and possibly concurrent calls of         *)
(* save_to_csv() on one store path, and through a direct call of           *)
(* analyze_data() on a batch.                                              *)
(***************************************************************************)
EXTENDS Integers, Sequences, FiniteSets, TLC

\* ------------------------------------------------------------------ bounds

\* Rows the page's table may hold (more than the ten the loop takes).
MaxRows == 11
\* Longest batch handed to analyze_data when it is entered directly.
MaxBatch == 3

\* rows[:10]
TopN == 10
\* len(row_data) >= 6
MinFragments == 6
\* time.sleep(2) after the consent click, time.sleep(3) after the table wait
CookieSleep == 2
TableSleep == 3

\* ------------------------------------------------------------------ text

NL == "\n"
Digits == <<"0", "1", "2", "3", "4", "5", "6", "7", "8", "9">>

IsDigit(c) == \E d \in 1..10 : Digits[d] = c
DigitVal(c) == (CHOOSE d \in 1..10 : Digits[d] = c) - 1

RECURSIVE Pow10(_)
Pow10(n) == IF n = 0 THEN 1 ELSE 10 * Pow10(n - 1)

\* str.startswith(ch) for a one-character prefix
StartsWith(s, ch) == Len(s) >= 1 /\ s[1] = ch

\* str.replace(ch, ''): every occurrence goes, not only a leading one
Replace(s, ch) == SelectSeq(s, LAMBDA c : c # ch)

\* sep.join(parts)
RECURSIVE Join(_, _)
Join(parts, sep) ==
    IF Len(parts) = 0 THEN <<>>
    ELSE IF Len(parts) = 1 THEN parts[1]
    ELSE parts[1] \o <<sep>> \o Join(Tail(parts), sep)

\* str.split(sep): "" gives one empty fragment, a trailing sep a last empty one
RECURSIVE SplitFrom(_, _, _)
SplitFrom(s, sep, cur) ==
    IF Len(s) = 0 THEN <<cur>>
    ELSE IF Head(s) = sep THEN <<cur>> \o SplitFrom(Tail(s), sep, <<>>)
    ELSE SplitFrom(Tail(s), sep, Append(cur, Head(s)))

Split(s, sep) == SplitFrom(s, sep, <<>>)

\* str(int) for a non-negative integer
RECURSIVE IntToStr(_)
IntToStr(n) ==
    IF n < 10 THEN <<Digits[n + 1]>>
    ELSE Append(IntToStr(n \div 10), Digits[(n % 10) + 1])

\* int(text) for a text of digits
RECURSIVE StrToInt(_)
StrToInt(s) ==
    IF Len(s) = 0 THEN 0
    ELSE 10 * StrToInt(SubSeq(s, 1, Len(s) - 1)) + DigitVal(s[Len(s)])

\* float(text): an optional sign, digits with at most one point and at least
\* one digit.  ok = FALSE is ValueError.  The value is num / 10^frac.
FloatBody(s) == IF Len(s) >= 1 /\ s[1] \in {"+", "-"} THEN Tail(s) ELSE s

FloatOk(s) ==
    LET b == FloatBody(s) IN
    /\ \A k \in 1..Len(b) : IsDigit(b[k]) \/ b[k] = "."
    /\ Cardinality({k \in 1..Len(b) : b[k] = "."}) <= 1
    /\ \E k \in 1..Len(b) : IsDigit(b[k])

Float(s) ==
    IF ~FloatOk(s) THEN [ok |-> FALSE, num |-> 0, frac |-> 0]
    ELSE LET b == FloatBody(s)
             dots == {k \in 1..Len(b) : b[k] = "."}
             frac == IF dots = {} THEN 0
                     ELSE Len(b) - (CHOOSE k \in dots : TRUE)
             mag == StrToInt(Replace(b, "."))
         IN [ok |-> TRUE,
             num |-> IF StartsWith(s, "-") THEN 0 - mag ELSE mag,
             frac |-> frac]

\* a <= b for two float() results
FloatLeq(a, b) == a.num * Pow10(b.frac) <= b.num * Pow10(a.frac)

\* ------------------------------------------------------------------ data

\* strftime of the clock; the clock counts seconds from the start of the run
Strftime(t) == IntToStr(t)

\* The dictionary built for an accepted row (the key 24h_Change is spelt
\* Change_24h).  Fragment k of the source is row_data[k + 1] here.
coin_infoKeepsDecoration(rank, row_data, t) ==
    [Rank |-> rank,
     Name |-> row_data[1],
     Symbol |-> row_data[2],
     Price |-> row_data[3],
     Change_24h |-> row_data[4],
     Market_Cap |-> row_data[5],
     Timestamp |-> Strftime(t)]

coin_info(rank, row_data, t) ==
    [Rank |-> rank,
     Name |-> row_data[2],
     Symbol |-> row_data[3],
     Price |-> row_data[4],
     Change_24h |-> row_data[5],
     Market_Cap |-> IF Len(row_data) > 5 THEN row_data[6] ELSE <<"N", "/", "A">>,
     Timestamp |-> Strftime(t)]

\* rows[:10]: how many rows the loop visits of a table of n rows
SliceLenAll(n) == n

SliceLen(n) == IF n < TopN THEN n ELSE TopN

\* Fragments of a rendered row: decoration, name, symbol, price, change, cap
GoodFrags ==
    << <<"1">>, <<"B", "t", "c">>, <<"B">>, <<"$", "6", "0">>,
       <<"+", "2", ".", "5", "%">>, <<"$", "1", "T">> >>

\* Texts row.text may return: six fragments, seven, five, and none at all
RowTexts ==
    { Join(GoodFrags, NL),
      Join(Append(GoodFrags, <<"x">>), NL),
      Join(SubSeq(GoodFrags, 1, 5), NL),
      <<>> }

\* ----------------------------------------------------------------- store

\* The store file: absent, or a header line (absent from a zero-byte file)
\* followed by lines of seven text fields.
NoFile == [exists |-> FALSE, header |-> FALSE, rows |-> <<>>]
ZeroByteFile == [exists |-> TRUE, header |-> FALSE, rows |-> <<>>]
File(rows) == [exists |-> TRUE, header |-> TRUE, rows |-> rows]

\* DataFrame.to_csv(index=False): one line a row, Rank written in decimal
FormatRow(coin) ==
    <<IntToStr(coin.Rank), coin.Name, coin.Symbol, coin.Price,
      coin.Change_24h, coin.Market_Cap, coin.Timestamp>>

ToCsv(df) == File([k \in 1..Len(df) |-> FormatRow(df[k])])

\* pd.read_csv: one row a line, the Rank column read back as integers
ParseLine(line) ==
    [Rank |-> StrToInt(line[1]),
     Name |-> line[2],
     Symbol |-> line[3],
     Price |-> line[4],
     Change_24h |-> line[5],
     Market_Cap |-> line[6],
     Timestamp |-> line[7]]

ReadCsvSkipsFirstLine(file) ==
    [k \in 1..(Len(file.rows) - 1) |-> ParseLine(file.rows[k + 1])]

ReadCsv(file) == [k \in 1..Len(file.rows) |-> ParseLine(file.rows[k])]

\* pd.concat([existing_df, df], ignore_index=True)
ConcatDropsExisting(existing_df, df) == df

combined_df(existing_df, df) == existing_df \o df

\* What a failed to_csv can leave behind: the file as it was (the open
\* failed), an emptied file, or the new content short of its last line.
WriteFailures(old, new) ==
    {old, ZeroByteFile, File(SubSeq(new.rows, 1, Len(new.rows) - 1))}

\* Snapshots of earlier runs and of direct callers
SampleCoin(rank, name, change) ==
    [Rank |-> rank,
     Name |-> name,
     Symbol |-> <<"S">>,
     Price |-> <<"$", "9">>,
     Change_24h |-> change,
     Market_Cap |-> <<"$", "2", "B">>,
     Timestamp |-> Strftime(rank)]

OldCoins ==
    << SampleCoin(1, <<"O", "n", "e">>, <<"-", "3", ".", "1", "%">>),
       SampleCoin(2, <<"T", "w", "o">>, <<"+", "1", ".", "0", "%">>) >>

\* The file as a call of save_to_csv may find it
StoreInits ==
    {NoFile, ZeroByteFile} \cup {ToCsv(SubSeq(OldCoins, 1, n)) : n \in 0..2}

\* The file as earlier runs of main() leave it
StoresOfMain == {NoFile, ToCsv(OldCoins)}

SaveBatches ==
    { <<>>,
      << SampleCoin(1, <<"A">>, <<"+", "5", ".", "2", "%">>) >>,
      << SampleCoin(1, <<"B">>, <<"-", "7", ".", "5", "%">>),
         SampleCoin(2, <<"C">>, <<"0", ".", "0", "%">>) >> }

\* Change texts of the batches analyze_data is entered with: signed, unsigned,
\* a sign followed by no number, a plus sign before a negative number, empty
ChangeTexts ==
    { <<"+", "5", ".", "2", "%">>, <<"+", "1", ".", "0", "%">>,
      <<"-", "3", ".", "1", "%">>, <<"-", "7", ".", "5", "%">>,
      <<"0", ".", "0", "%">>, <<"+", "x", "%">>, <<"+", "-", "2", "%">>, <<>> }

AnalyzeBatches ==
    UNION { { [k \in 1..n |-> SampleCoin(k, IntToStr(k), f[k])] :
                f \in [1..n -> ChangeTexts] } : n \in 0..MaxBatch }

Callers == {"c1", "c2"}

\* -------------------------------------------------------------- analysis

\* the key of max(gainers, ...) and of min(losers, ...)
GainKey(coin) == Float(Replace(Replace(coin.Change_24h, "+"), "%"))
LossKey(coin) == Float(Replace(Replace(coin.Change_24h, "-"), "%"))

Gainers(data) == SelectSeq(data, LAMBDA coin : StartsWith(coin.Change_24h, "+"))
Losers(data) == SelectSeq(data, LAMBDA coin : StartsWith(coin.Change_24h, "-"))

\* the keys of a list, as max and min compute them
GainKeys(list) == [k \in 1..Len(list) |-> GainKey(list[k])]
LossKeys(list) == [k \in 1..Len(list) |-> LossKey(list[k])]

\* float() raises on some element of the list
KeyRaises(keys) == \E k \in 1..Len(keys) : ~keys[k].ok

\* the index max(list, key=...) and min(list, key=...) pick: the first
\* element of extreme key
PyMax(keys) ==
    CHOOSE k \in 1..Len(keys) :
        /\ \A j \in 1..Len(keys) : FloatLeq(keys[j], keys[k])
        /\ \A j \in 1..(k - 1) : ~FloatLeq(keys[k], keys[j])

PyMin(keys) ==
    CHOOSE k \in 1..Len(keys) :
        /\ \A j \in 1..Len(keys) : FloatLeq(keys[k], keys[j])
        /\ \A j \in 1..(k - 1) : ~FloatLeq(keys[j], keys[k])

TopGainerLast(list) == list[Len(list)]

TopGainer(list) == list[PyMax(GainKeys(list))]

TopLoser(list) == list[PyMin(LossKeys(list))]

\* ----------------------------------------------------------------- state

VARIABLES
    entry,        \* the function entered: "main", "save_to_csv", "analyze_data"
    pc,           \* where the entered function stands
    session,      \* the browser session: "none", "open", "closed"
    now,          \* the clock, in seconds from the start of the run
    nrows,        \* len(rows) of find_elements
    i,            \* the index of enumerate(rows[:10], 1)
    row_data,     \* row.text.split('\n') of the row being parsed
    crypto_data,  \* the batch
    faults,       \* failures the environment has injected into the run
    printed,      \* messages printed
    called,       \* functions called
    raised,       \* the exception leaving the entered function, or "none"
    store,        \* the file crypto_prices.csv
    store0,       \* the file as it was at the start
    spc,          \* save_to_csv: where each call stands
    sdata,        \* save_to_csv: the argument data of each call
    existing_df,  \* save_to_csv: what each call read
    sret,         \* save_to_csv: "none", "True" or "False" returned by each call
    sio,          \* save_to_csv: the file operations of each call, in order
    gainers,      \* analyze_data: the list gainers
    losers,       \* analyze_data: the list losers
    top_gainer,   \* analyze_data: the coin reported as top gainer, if any
    top_loser     \* analyze_data: the coin reported as top loser, if any

vars ==
    <<entry, pc, session, now, nrows, i, row_data, crypto_data, faults,
      printed, called, raised, store, store0, spc, sdata, existing_df, sret,
      sio, gainers, losers, top_gainer, top_loser>>

scrapeVars == <<session, now, nrows, i, row_data>>
saveVars == <<store, spc, sdata, existing_df, sret, sio>>
analysisVars == <<gainers, losers, top_gainer, top_loser>>

InitCommon ==
    /\ session = "none"
    /\ now = 0
    /\ nrows = 0
    /\ i = 0
    /\ row_data = <<>>
    /\ faults = {}
    /\ printed = {}
    /\ called = {}
    /\ raised = "none"
    /\ store0 = store
    /\ existing_df = [c \in Callers |-> <<>>]
    /\ sret = [c \in Callers |-> "none"]
    /\ sio = [c \in Callers |-> <<>>]
    /\ gainers = <<>>
    /\ losers = <<>>
    /\ top_gainer = <<>>
    /\ top_loser = <<>>

\* python crypto_price_tracker.py
InitMain ==
    /\ entry = "main"
    /\ pc = "main"
    /\ crypto_data = <<>>
    /\ store \in StoresOfMain
    /\ spc = [c \in Callers |-> "idle"]
    /\ sdata = [c \in Callers |-> <<>>]

\* two calls of save_to_csv(data) on the same path, their steps interleaved
InitSave ==
    /\ entry = "save_to_csv"
    /\ pc = "save"
    /\ crypto_data = <<>>
    /\ store \in StoreInits
    /\ spc = [c \in Callers |-> "check"]
    /\ sdata \in [Callers -> SaveBatches]

\* a call of analyze_data(data)
InitAnalyze ==
    /\ entry = "analyze_data"
    /\ pc = "analyze"
    /\ crypto_data \in AnalyzeBatches
    /\ store = NoFile
    /\ spc = [c \in Callers |-> "idle"]
    /\ sdata = [c \in Callers |-> <<>>]

Init == (InitMain \/ InitSave \/ InitAnalyze) /\ InitCommon

\* ---------------------------------------------------- scrape_crypto_prices

\* where control goes from the handler "except Exception as e": the finally
HandlerSkipsFinally == "scraped"

HandlerNext == "finally"

\* the handler of the outer try: print the error, fall into the finally
ScrapingErrorPropagates(fault) ==
    /\ faults' = faults \cup {fault}
    /\ raised' = "WebDriverException"
    /\ pc' = "exit"
    /\ UNCHANGED printed

ScrapingError(fault) ==
    /\ faults' = faults \cup {fault}
    /\ printed' = printed \cup {"scraping_error"}
    /\ pc' = HandlerNext
    /\ UNCHANGED raised

\* main() calls scrape_crypto_prices(), which calls setup_driver()
SetupDriver ==
    /\ pc = "main"
    /\ called' = called \cup {"scrape_crypto_prices", "setup_driver"}
    /\ printed' = printed \cup {"banner", "loading"}
    /\ session' = "open"
    /\ pc' = "get"
    /\ UNCHANGED <<entry, now, nrows, i, row_data, crypto_data, faults, raised,
                   store0, saveVars, analysisVars>>

\* webdriver.Chrome(...) raises: setup_driver is called outside the try
SetupDriverFails ==
    /\ pc = "main"
    /\ called' = called \cup {"scrape_crypto_prices", "setup_driver"}
    /\ printed' = printed \cup {"banner"}
    /\ faults' = faults \cup {"launch"}
    /\ raised' = "WebDriverException"
    /\ pc' = "exit"
    /\ UNCHANGED <<entry, scrapeVars, crypto_data, store0, saveVars,
                   analysisVars>>

\* driver.get("https://coinmarketcap.com/")
DriverGet ==
    /\ pc = "get"
    /\ pc' = "cookie"
    /\ UNCHANGED <<entry, scrapeVars, crypto_data, faults, printed, called,
                   raised, store0, saveVars, analysisVars>>

DriverGetFails ==
    /\ pc = "get"
    /\ ScrapingError("get")
    /\ UNCHANGED <<entry, scrapeVars, crypto_data, called, store0, saveVars,
                   analysisVars>>

\* the consent button is clicked, or the wait or the click raises (bare except)
AcceptCookies ==
    /\ pc = "cookie"
    /\ \/ /\ printed' = printed \cup {"cookies_accepted"}
          /\ now' = now + CookieSleep
          /\ UNCHANGED faults
       \/ /\ printed' = printed \cup {"no_cookie_banner"}
          /\ faults' = faults \cup {"cookie"}
          /\ UNCHANGED now
    /\ pc' = "table"
    /\ UNCHANGED <<entry, session, nrows, i, row_data, crypto_data, called,
                   raised, store0, saveVars, analysisVars>>

WaitTable ==
    /\ pc = "table"
    /\ now' = now + TableSleep
    /\ pc' = "find"
    /\ UNCHANGED <<entry, session, nrows, i, row_data, crypto_data, faults,
                   printed, called, raised, store0, saveVars, analysisVars>>

WaitTableFails ==
    /\ pc = "table"
    /\ ScrapingError("table")
    /\ UNCHANGED <<entry, scrapeVars, crypto_data, called, store0, saveVars,
                   analysisVars>>

FindRows ==
    /\ pc = "find"
    /\ nrows' \in 0..MaxRows
    /\ i' = 1
    /\ printed' = printed \cup {"found"}
    /\ pc' = "loop"
    /\ UNCHANGED <<entry, session, now, row_data, crypto_data, faults, called,
                   raised, store0, saveVars, analysisVars>>

FindRowsFails ==
    /\ pc = "find"
    /\ ScrapingError("find")
    /\ UNCHANGED <<entry, scrapeVars, crypto_data, called, store0, saveVars,
                   analysisVars>>

\* row_data = row.text.split('\n')
RowText ==
    /\ pc = "loop"
    /\ i <= SliceLen(nrows)
    /\ \E text \in RowTexts : row_data' = Split(text, NL)
    /\ pc' = "parse"
    /\ UNCHANGED <<entry, session, now, nrows, i, crypto_data, faults, printed,
                   called, raised, store0, saveVars, analysisVars>>

\* row.text raises: the handler of the row prints and the loop continues
RowTextFails ==
    /\ pc = "loop"
    /\ i <= SliceLen(nrows)
    /\ faults' = faults \cup {"row"}
    /\ printed' = printed \cup {"row_error"}
    /\ i' = i + 1
    /\ UNCHANGED <<entry, pc, session, now, nrows, row_data, crypto_data,
                   called, raised, store0, saveVars, analysisVars>>

\* if len(row_data) >= 6
Accepts(fragments) == Len(fragments) >= MinFragments

ParseRow ==
    /\ pc = "parse"
    /\ IF Accepts(row_data)
         THEN /\ crypto_data' = Append(crypto_data, coin_info(i, row_data, now))
              /\ printed' = printed \cup {"coin"}
         ELSE UNCHANGED <<crypto_data, printed>>
    /\ row_data' = <<>>
    /\ i' = i + 1
    /\ pc' = "loop"
    /\ UNCHANGED <<entry, session, now, nrows, faults, called, raised, store0,
                   saveVars, analysisVars>>

LoopEnd ==
    /\ pc = "loop"
    /\ i > SliceLen(nrows)
    /\ pc' = "finally"
    /\ UNCHANGED <<entry, scrapeVars, crypto_data, faults, printed, called,
                   raised, store0, saveVars, analysisVars>>

\* finally: driver.quit(); then return crypto_data, which ends the locals
Quit ==
    /\ pc = "finally"
    /\ session' = "closed"
    /\ nrows' = 0
    /\ i' = 0
    /\ pc' = "scraped"
    /\ UNCHANGED <<entry, now, row_data, crypto_data, faults, printed, called,
                   raised, store0, saveVars, analysisVars>>

\* ------------------------------------------------------------------ main

\* if crypto_data: ... else: print("Failed to fetch data. Please try again.")
MainBranch ==
    /\ pc = "scraped"
    /\ IF crypto_data # <<>>
         THEN /\ pc' = "display"
              /\ UNCHANGED printed
         ELSE /\ pc' = "exit"
              /\ printed' = printed \cup {"failed_to_fetch"}
    /\ UNCHANGED <<entry, scrapeVars, crypto_data, faults, called, raised,
                   store0, saveVars, analysisVars>>

DisplayData ==
    /\ pc = "display"
    /\ called' = called \cup {"display_data"}
    /\ printed' = printed \cup {"table"}
    /\ pc' = "call_save"
    /\ UNCHANGED <<entry, scrapeVars, crypto_data, faults, raised, store0,
                   saveVars, analysisVars>>

\* save_to_csv(crypto_data)
CallSave ==
    /\ pc = "call_save"
    /\ called' = called \cup {"save_to_csv"}
    /\ sdata' = [sdata EXCEPT !["c1"] = crypto_data]
    /\ spc' = [spc EXCEPT !["c1"] = "check"]
    /\ pc' = "save"
    /\ UNCHANGED <<entry, scrapeVars, crypto_data, faults, printed, raised,
                   store, store0, existing_df, sret, sio, analysisVars>>

\* save_to_csv has returned; its result is not read
SaveReturns ==
    /\ entry = "main"
    /\ pc = "save"
    /\ spc["c1"] = "done"
    /\ pc' = "analyze"
    /\ UNCHANGED <<entry, scrapeVars, crypto_data, faults, printed, called,
                   raised, store0, saveVars, analysisVars>>

Epilogue ==
    /\ pc = "epilogue"
    /\ printed' = printed \cup {"last_updated"}
    /\ pc' = "exit"
    /\ UNCHANGED <<entry, scrapeVars, crypto_data, faults, called, raised,
                   store0, saveVars, analysisVars>>

\* ----------------------------------------------------------- save_to_csv

saveFrame ==
    <<entry, pc, scrapeVars, crypto_data, called, store0, sdata, analysisVars>>

\* "if not data": the guard that sends an empty batch away
EmptyNeverRejected(data) == FALSE

NoData(data) == data = <<>>

Returns(c, value) ==
    /\ sret' = [sret EXCEPT ![c] = value]
    /\ spc' = [spc EXCEPT ![c] = "done"]

\* the handler "except Exception as e": print, return False
SaveErrorPropagates(c) ==
    /\ raised' = "OSError"
    /\ Returns(c, "none")
    /\ UNCHANGED printed

SaveError(c) ==
    /\ printed' = printed \cup {"save_error"}
    /\ Returns(c, "False")
    /\ UNCHANGED raised

SaveCheck(c) ==
    /\ spc[c] = "check"
    /\ IF NoData(sdata[c])
         THEN /\ printed' = printed \cup {"no_data_to_save"}
              /\ Returns(c, "False")
         ELSE /\ spc' = [spc EXCEPT ![c] = "read"]
              /\ UNCHANGED <<printed, sret>>
    /\ UNCHANGED <<saveFrame, raised, faults, store, existing_df, sio>>

\* existing_df = pd.read_csv(filename)
SaveRead(c) ==
    /\ spc[c] = "read"
    /\ store.exists
    /\ store.header
    /\ existing_df' = [existing_df EXCEPT ![c] = ReadCsv(store)]
    /\ sio' = [sio EXCEPT ![c] = Append(@, "read")]
    /\ spc' = [spc EXCEPT ![c] = "write"]
    /\ UNCHANGED <<saveFrame, raised, faults, printed, store, sret>>

\* pd.read_csv raises FileNotFoundError: the inner handler writes a new file
SaveReadNoFile(c) ==
    /\ spc[c] = "read"
    /\ ~store.exists
    /\ sio' = [sio EXCEPT ![c] = Append(@, "read_no_file")]
    /\ spc' = [spc EXCEPT ![c] = "create"]
    /\ UNCHANGED <<saveFrame, raised, faults, printed, store, existing_df, sret>>

\* pd.read_csv raises another error: the file cannot be opened or read, or
\* it holds no header line (EmptyDataError)
SaveReadFails(c) ==
    /\ spc[c] = "read"
    /\ store.exists
    /\ faults' = faults \cup {"store"}
    /\ sio' = [sio EXCEPT ![c] = Append(@, "read_error")]
    /\ SaveError(c)
    /\ UNCHANGED <<saveFrame, store, existing_df>>

\* combined_df.to_csv(filename, index=False)
SaveWrite(c) ==
    /\ spc[c] = "write"
    /\ store' = ToCsv(combined_df(existing_df[c], sdata[c]))
    /\ sio' = [sio EXCEPT ![c] = Append(@, "write")]
    /\ printed' = printed \cup {"appended"}
    /\ Returns(c, "True")
    /\ UNCHANGED <<saveFrame, raised, faults, existing_df>>

SaveWriteFails(c) ==
    /\ spc[c] = "write"
    /\ store' \in WriteFailures(store, ToCsv(combined_df(existing_df[c], sdata[c])))
    /\ faults' = faults \cup {"store"}
    /\ sio' = [sio EXCEPT ![c] = Append(@, "write_error")]
    /\ SaveError(c)
    /\ UNCHANGED <<saveFrame, existing_df>>

\* df.to_csv(filename, index=False) in the handler of FileNotFoundError
SaveCreate(c) ==
    /\ spc[c] = "create"
    /\ store' = ToCsv(sdata[c])
    /\ sio' = [sio EXCEPT ![c] = Append(@, "write")]
    /\ printed' = printed \cup {"new_file"}
    /\ Returns(c, "True")
    /\ UNCHANGED <<saveFrame, raised, faults, existing_df>>

SaveCreateFails(c) ==
    /\ spc[c] = "create"
    /\ store' \in WriteFailures(store, ToCsv(sdata[c]))
    /\ faults' = faults \cup {"store"}
    /\ sio' = [sio EXCEPT ![c] = Append(@, "write_error")]
    /\ SaveError(c)
    /\ UNCHANGED <<saveFrame, existing_df>>

\* ---------------------------------------------------------- analyze_data

AnalyzeData ==
    /\ pc = "analyze"
    /\ called' = called \cup {"analyze_data"}
    /\ IF crypto_data = <<>>
         THEN /\ UNCHANGED <<printed, raised, analysisVars>>
              /\ pc' = "exit"
         ELSE LET g == Gainers(crypto_data)
                  l == Losers(crypto_data)
                  gfails == g # <<>> /\ KeyRaises(GainKeys(g))
                  lfails == ~gfails /\ l # <<>> /\ KeyRaises(LossKeys(l))
              IN /\ gainers' = g
                 /\ losers' = l
                 /\ top_gainer' = IF g # <<>> /\ ~gfails
                                    THEN <<TopGainer(g)>> ELSE <<>>
                 /\ top_loser' = IF l # <<>> /\ ~gfails /\ ~lfails
                                   THEN <<TopLoser(l)>> ELSE <<>>
                 /\ printed' = printed \cup {"analysis"}
                 /\ raised' = IF gfails \/ lfails THEN "ValueError" ELSE "none"
                 /\ pc' = IF gfails \/ lfails \/ entry # "main"
                            THEN "exit" ELSE "epilogue"
    /\ UNCHANGED <<entry, scrapeVars, crypto_data, faults, store0, saveVars>>

\* ------------------------------------------------------------------ spec

Next ==
    \/ SetupDriver
    \/ SetupDriverFails
    \/ DriverGet
    \/ DriverGetFails
    \/ AcceptCookies
    \/ WaitTable
    \/ WaitTableFails
    \/ FindRows
    \/ FindRowsFails
    \/ RowText
    \/ RowTextFails
    \/ ParseRow
    \/ LoopEnd
    \/ Quit
    \/ MainBranch
    \/ DisplayData
    \/ CallSave
    \/ SaveReturns
    \/ AnalyzeData
    \/ Epilogue
    \/ \E c \in Callers : SaveCheck(c)
    \/ \E c \in Callers : SaveRead(c)
    \/ \E c \in Callers : SaveReadNoFile(c)
    \/ \E c \in Callers : SaveReadFails(c)
    \/ \E c \in Callers : SaveWrite(c)
    \/ \E c \in Callers : SaveWriteFails(c)
    \/ \E c \in Callers : SaveCreate(c)
    \/ \E c \in Callers : SaveCreateFails(c)

Spec == Init /\ [][Next]_vars

\* ---------------------------------------------------------------- claims

Range(list) == {list[k] : k \in 1..Len(list)}
Ranks(batch) == [k \in 1..Len(batch) |-> batch[k].Rank]
Plus(text) == Len(text) >= 1 /\ text[1] = "+"
Minus(text) == Len(text) >= 1 /\ text[1] = "-"
Returned == pc \in {"scraped", "display", "call_save", "save", "analyze",
                    "epilogue", "exit"}
Readable(file) == file.exists /\ file.header
Lines(batch) == [k \in 1..Len(batch) |-> FormatRow(batch[k])]
Other(c) == CHOOSE d \in Callers : d # c

\* C1: once setup_driver has returned a session, scrape_crypto_prices does
\* not return with the session still open: driver.quit() has run on every
\* path out of it (success, no consent button, navigation or table failure,
\* failure on a row).
C1_SessionReleased ==
    (entry = "main" /\ Returned /\ session # "none") => session = "closed"

\* a run that met no consent button and a failing row and still got a batch
C1_Witness ==
    /\ pc = "scraped"
    /\ session = "closed"
    /\ {"cookie", "row"} \subseteq faults
    /\ crypto_data # <<>>

\* a run whose navigation failed
C1_WitnessNavigation ==
    pc = "scraped" /\ session = "closed" /\ "get" \in faults

\* C2: a row of the first ten whose text splits into at least six fragments
\* appends exactly one snapshot, with Rank the 1-based position of the row
\* and Name, Symbol, Price, 24h_Change, Market_Cap the fragments 1 to 5; a
\* row of fewer fragments appends nothing and raises nothing.
C2_RowParsing ==
    [][pc = "parse" =>
        /\ i \in 1..10
        /\ raised' = "none"
        /\ faults' = faults
        /\ IF Len(row_data) >= 6
             THEN /\ Len(crypto_data') = Len(crypto_data) + 1
                  /\ SubSeq(crypto_data', 1, Len(crypto_data)) = crypto_data
                  /\ LET coin == crypto_data'[Len(crypto_data')]
                     IN /\ coin.Rank = i
                        /\ coin.Name = row_data[2]
                        /\ coin.Symbol = row_data[3]
                        /\ coin.Price = row_data[4]
                        /\ coin.Change_24h = row_data[5]
                        /\ coin.Market_Cap = row_data[6]
             ELSE crypto_data' = crypto_data]_vars

\* the first row was short and skipped, the second accepted with Rank 2
C2_Witness ==
    /\ pc = "loop"
    /\ i = 3
    /\ "row" \notin faults
    /\ Len(crypto_data) = 1
    /\ crypto_data[1].Rank = 2
    /\ crypto_data[1].Name = <<"B", "t", "c">>

\* C3 as stated: the returned batch holds at most ten snapshots and their
\* Rank values are pairwise distinct and consecutive integers.
C3_RanksContiguous ==
    (entry = "main" /\ pc = "scraped") =>
        /\ Len(crypto_data) <= 10
        /\ \A j, k \in 1..Len(crypto_data) :
              j # k => crypto_data[j].Rank # crypto_data[k].Rank
        /\ \A k \in 1..(Len(crypto_data) - 1) :
              crypto_data[k + 1].Rank = crypto_data[k].Rank + 1

\* C3 amended: the batch holds at most ten snapshots; their Rank values are
\* pairwise distinct, increasing and within 1..10, each the position of its
\* row; they are the consecutive integers from 1 when no visited row was
\* skipped.
C3_RanksIncreasing ==
    entry = "main" =>
        /\ Len(crypto_data) <= 10
        /\ \A k \in 1..Len(crypto_data) : crypto_data[k].Rank \in 1..10
        /\ \A j, k \in 1..Len(crypto_data) :
              j < k => crypto_data[j].Rank < crypto_data[k].Rank
        /\ (pc \in {"loop", "finally"} /\ Len(crypto_data) = i - 1) =>
              \A k \in 1..Len(crypto_data) : crypto_data[k].Rank = k

\* a table of more than ten rows, all of the first ten accepted
C3_Witness ==
    /\ pc = "finally"
    /\ nrows > TopN
    /\ Len(crypto_data) = TopN
    /\ crypto_data[TopN].Rank = TopN

\* C4 as stated: whatever fails (browser launch, navigation, table wait, a
\* row, the store), main() returns with no exception leaving it.
C4_NoExceptionLeavesMain ==
    (entry = "main" /\ pc = "exit") => raised = "none"

\* C4 amended: a failure of navigation, of the table wait, of a row or of
\* the store is caught and reported by a printed message, and no exception
\* leaves main() for it; a failure to launch the browser is not caught and
\* leaves main() as an exception.
C4_FailuresAfterLaunchCaught ==
    entry = "main" =>
        /\ raised # "none" <=> "launch" \in faults
        /\ faults \cap {"get", "table", "find"} # {} =>
              "scraping_error" \in printed
        /\ "row" \in faults => "row_error" \in printed
        /\ "store" \in faults => "save_error" \in printed
        /\ "cookie" \in faults => "no_cookie_banner" \in printed

\* the table wait timed out and main() has returned after reporting it
C4_Witness ==
    /\ entry = "main"
    /\ pc = "exit"
    /\ "table" \in faults
    /\ raised = "none"
    /\ {"scraping_error", "failed_to_fetch"} \subseteq printed

C6_EmptyBatchLeavesStore ==
    /\ \A c \in Callers :
          sdata[c] = <<>> =>
             /\ sio[c] = <<>>
             /\ spc[c] = "done" => sret[c] = "False"
    /\ (\A c \in Callers : sdata[c] = <<>>) => store = store0
    /\ ( /\ entry = "main"
         /\ Returned
         /\ faults \cap {"get", "table", "find"} # {} )
       => /\ crypto_data = <<>>
          /\ called \cap {"save_to_csv", "display_data", "analyze_data"} = {}
          /\ pc = "exit" => "failed_to_fetch" \in printed
          /\ store = store0

\* save_to_csv has returned from two calls with empty batches on a store
\* that holds rows
C6_Witness ==
    /\ entry = "save_to_csv"
    /\ \A c \in Callers : spc[c] = "done" /\ sdata[c] = <<>> /\ sret[c] = "False"
    /\ Len(store0.rows) = 2
    /\ store = store0

\* main() has returned after a navigation failure without touching the store
C6_WitnessMain ==
    /\ entry = "main"
    /\ pc = "exit"
    /\ "get" \in faults
    /\ Len(store.rows) = 2

\* C7: an error while save_to_csv reads or writes the store, other than the
\* store not existing, is caught: save_to_csv returns False and raises
\* nothing, and main() goes on to run analyze_data on the batch.
C7_StoreErrorCaught ==
    /\ \A c \in Callers :
          ( /\ spc[c] = "done"
            /\ \E k \in 1..Len(sio[c]) :
                  sio[c][k] \in {"read_error", "write_error"} )
          => /\ sret[c] = "False"
             /\ raised = "none"
             /\ "save_error" \in printed
    /\ (entry = "main" /\ "store" \in faults /\ pc \in {"epilogue", "exit"})
       => /\ "analyze_data" \in called
          /\ "analysis" \in printed
          /\ raised = "none"
          /\ gainers = crypto_data

\* the write of the combined rows failed and main() has analysed the batch
C7_Witness ==
    /\ entry = "main"
    /\ pc = "exit"
    /\ sio["c1"] = <<"read", "write_error">>
    /\ sret["c1"] = "False"
    /\ "analyze_data" \in called

\* C8: gainers are exactly the snapshots whose change text starts with '+',
\* losers exactly those whose change text starts with '-', the two counts
\* sum to at most the batch size, and the reported top gainer is a gainer
\* whose number, '+' and '%' stripped, is at least that of every gainer.
C8_GainersAndTopGainer ==
    "analysis" \in printed =>
        /\ Range(gainers) = {coin \in Range(crypto_data) : Plus(coin.Change_24h)}
        /\ Range(losers) = {coin \in Range(crypto_data) : Minus(coin.Change_24h)}
        /\ Len(gainers) =
              Cardinality({k \in 1..Len(crypto_data) : Plus(crypto_data[k].Change_24h)})
        /\ Len(losers) =
              Cardinality({k \in 1..Len(crypto_data) : Minus(crypto_data[k].Change_24h)})
        /\ Len(gainers) + Len(losers) <= Len(crypto_data)
        /\ (gainers # <<>> /\ raised = "none") => Len(top_gainer) = 1
        /\ top_gainer # <<>> =>
              /\ top_gainer[1] \in Range(gainers)
              /\ \A coin \in Range(gainers) :
                    FloatLeq(GainKey(coin), GainKey(top_gainer[1]))

\* the batch of changes +1.0%, -3.1%, +5.2%: two gainers, one loser, and the
\* top gainer the one of +5.2%
C8_Witness ==
    /\ entry = "analyze_data"
    /\ pc = "exit"
    /\ Len(crypto_data) = 3
    /\ crypto_data[1].Change_24h = <<"+", "1", ".", "0", "%">>
    /\ crypto_data[2].Change_24h = <<"-", "3", ".", "1", "%">>
    /\ crypto_data[3].Change_24h = <<"+", "5", ".", "2", "%">>
    /\ Len(gainers) = 2
    /\ Len(losers) = 1
    /\ top_gainer = <<crypto_data[3]>>

\* a batch of unsigned changes only: no gainer, no loser
C8_WitnessUnsigned ==
    /\ entry = "analyze_data"
    /\ pc = "exit"
    /\ Len(crypto_data) = 2
    /\ \A k \in 1..2 : crypto_data[k].Change_24h = <<"0", ".", "0", "%">>
    /\ "analysis" \in printed
    /\ gainers = <<>>
    /\ losers = <<>>

\* C9: the reported top loser is the largest loss: its number, '-' and '%'
\* stripped, is at least that of every loser of the batch.
C9_TopLoserIsLargestLoss ==
    top_loser # <<>> =>
        \A coin \in Range(losers) :
            FloatLeq(LossKey(coin), LossKey(top_loser[1]))

\* what analyze_data reports instead: the loser of the smallest number
C9_TopLoserIsSmallestLoss ==
    top_loser # <<>> =>
        /\ top_loser[1] \in Range(losers)
        /\ \A coin \in Range(losers) :
              FloatLeq(LossKey(top_loser[1]), LossKey(coin))

\* C10: two calls of save_to_csv on one existing store, each with a
\* non-empty batch, can both return True and leave a store that lacks the
\* rows of one batch.  When both return True the store holds the prior rows,
\* then the batch of the call that wrote last, with the other batch between
\* them or missing.
C10_LastWriterWins ==
    ( /\ entry = "save_to_csv"
      /\ Readable(store0)
      /\ \A c \in Callers : spc[c] = "done" /\ sret[c] = "True" )
    => \E c \in Callers :
          \/ store.rows = store0.rows \o Lines(sdata[Other(c)]) \o Lines(sdata[c])
          \/ store.rows = store0.rows \o Lines(sdata[c])

\* both calls returned True and the rows of the batch of c1 are lost
C10_Witness ==
    /\ entry = "save_to_csv"
    /\ Len(store0.rows) = 2
    /\ \A c \in Callers : spc[c] = "done" /\ sret[c] = "True"
    /\ Len(sdata["c1"]) = 1
    /\ Len(sdata["c2"]) = 2
    /\ store.rows = store0.rows \o Lines(sdata["c2"])

====
